---------------------------- MODULE Spec2Model ----------------------------
(***************************************************************************)
(* nearbychat backend (Hono handlers over a key-value store and an         *)
(* external Identity Provider): signup, update-location, nearby-users,     *)
(* send-message, get-messages.                                             *)
(*                                                                         *)
(* Strings that the code sorts, joins or scans by prefix (user ids, store  *)
(* keys, ISO timestamps) are sequences of UTF-16 code units, so that       *)
(* Array.prototype.sort's default order, template concatenation and the    *)
(* prefix scan are computed, not assumed.  Opaque strings (email, name,    *)
(* avatar, message text, error texts) are TLA+ strings.                    *)
(*                                                                         *)
(* A handler is split at its awaits on the store: one action for the       *)
(* arrival of the request up to the first store call, one action for each  *)
(* store call taking effect together with the code that follows it.        *)
(***************************************************************************)
EXTENDS Integers, Sequences, FiniteSets, TLC

(***************************************************************************)
(* Bounds of the model.                                                    *)
(***************************************************************************)
MaxWrites == 2      \* update-location and send-message requests that pass authentication
ClockStart == 999   \* clock (ms) of the first state
MaxTicks == 1       \* milliseconds the clock advances

(***************************************************************************)
(* String literals, as code units.                                         *)
(***************************************************************************)
Colon == <<58>>                                         \* ":"
UserPrefix == <<117, 115, 101, 114, 58>>                \* "user:"
MessagePrefix == <<109, 101, 115, 115, 97, 103, 101, 58>>  \* "message:"
IsoPrefix == <<49, 57, 55, 48, 45, 48, 49, 45, 48, 49, 84, 48, 48, 58, 48, 48, 58>>
                                                        \* "1970-01-01T00:00:"
Dot == <<46>>                                           \* "."
Zulu == <<90>>                                          \* "Z"
\* the ids the Identity Provider hands out: "a", "ab"
UserIds == { <<97>>, <<97, 98>> }
StrangerId == <<99>>                                    \* "c": no account has it

(***************************************************************************)
(* JavaScript string primitives.                                           *)
(***************************************************************************)
RECURSIVE StrLess(_, _)
\* a < b in the order of Array.prototype.sort without comparator:
\* lexicographic by code unit, a proper prefix first.
StrLess(a, b) ==
  IF b = <<>> THEN FALSE
  ELSE IF a = <<>> THEN TRUE
  ELSE IF Head(a) # Head(b) THEN Head(a) < Head(b)
  ELSE StrLess(Tail(a), Tail(b))

\* String.prototype.startsWith, the test of the prefix scan
StartsWith(s, p) == Len(p) <= Len(s) /\ SubSeq(s, 1, Len(p)) = p

Digit(d) == <<48 + d>>

RECURSIVE NumberToString(_)
\* a non-negative integer inside a template literal: its decimal digits
NumberToString(n) ==
  IF n < 10 THEN Digit(n) ELSE NumberToString(n \div 10) \o Digit(n % 10)

\* Date.prototype.toISOString for a clock inside the first minute of the
\* epoch: "1970-01-01T00:00:SS.mmmZ"
ToISOString(ms) ==
  LET sec == ms \div 1000
      frac == ms % 1000
  IN IsoPrefix \o Digit(sec \div 10) \o Digit(sec % 10) \o Dot
       \o Digit(frac \div 100) \o Digit((frac \div 10) % 10) \o Digit(frac % 10)
       \o Zulu

\* new Date(iso).getTime(): the seconds and milliseconds fields read back
GetTime(iso) ==
  LET n == Len(IsoPrefix)
      d(i) == iso[n + i] - 48
  IN (d(1) * 10 + d(2)) * 1000 + d(4) * 100 + d(5) * 10 + d(6)

(***************************************************************************)
(* conversationId: [user.id, recipientId].sort().join(':')                 *)
(***************************************************************************)
SortPair(a, b) == IF StrLess(b, a) THEN <<b, a>> ELSE <<a, b>>

JoinPair(p) == p[1] \o Colon \o p[2]

\* variant: the pair joined in the order caller, recipient
ConversationIdUnsorted(userId, recipientId) == JoinPair(<<userId, recipientId>>)

ConversationId(userId, recipientId) == JoinPair(SortPair(userId, recipientId))

MessageKey(conversationId, nowMs) ==
  MessagePrefix \o conversationId \o Colon \o NumberToString(nowMs)

UserKey(id) == UserPrefix \o id


(***************************************************************************)
(* JSON values of the request bodies that the handlers test for truth.     *)
(***************************************************************************)
JNull == [t |-> "null"]
JNum(n) == [t |-> "num", v |-> n]
LocationBodies ==
  { [latitude |-> JNum(14), longitude |-> JNum(52)],
    [latitude |-> JNum(0), longitude |-> JNum(52)],
    [latitude |-> JNum(14), longitude |-> JNum(0)],
    [latitude |-> JNull, longitude |-> JNum(52)] }

\* JavaScript truthiness of a JSON null or number
Truthy(j) == j.t = "num" /\ j.v # 0

(***************************************************************************)
(* Request inputs.                                                         *)
(***************************************************************************)
SignupBodies ==
  { [email |-> "ann@x", password |-> "secret1", name |-> "Ann", avatar |-> "smile"],
    [email |-> "bob@x", password |-> "secret2", name |-> "Bob", avatar |-> "cool"],
    [email |-> "eve@x", password |-> "x", name |-> "Eve", avatar |-> "smile"] }

\* the access token the Identity Provider issues for an account
TokenOf(id) == <<116, 58>> \o id                        \* "t:" id
JunkToken == <<106>>                                    \* "j"
Bearer == <<66, 101, 97, 114, 101, 114>>                \* "Bearer"

\* An Authorization header, as the words between its spaces; <<>> when the
\* request carries none.
AuthHeaders ==
  {<<>>, <<Bearer>>, <<Bearer, JunkToken>>} \cup {<<Bearer, TokenOf(id)>> : id \in UserIds}

\* recipientId of a send-message body: a user, the sender included
RecipientIds == UserIds
\* :recipientId of a get-messages path: any string
PathRecipientIds == UserIds \cup {StrangerId}
MessageTexts == {"hi"}
\* senderId of a send-message body: a field the handler does not read, by
\* which a client may name any user as the sender
BodySenderIds == UserIds

(***************************************************************************)
(* State.                                                                  *)
(***************************************************************************)
VARIABLES
  accounts,   \* Identity Provider: the users it created, [id, email]
  store,      \* key-value store: function from keys to values
  now,        \* the clock, in ms
  req,        \* per slot: the request in flight, with the handler's locals
  reply,      \* the response sent last, with the request it answers
  writes,     \* update-location and send-message requests that passed authentication
  acked       \* message of every send-message that answered success

\* The ChatView component of the client (src/components/ChatView.tsx): its
\* props, its React state and its requests in flight.
VARIABLES
  props,      \* currentUserId, recipient and accessToken, or NoChatView
  mounted,    \* the polling effect has run
  messages,   \* useState: the list displayed
  newMessage, \* useState: the text of the input, as code units
  isSending,  \* useState
  fetches,    \* calls of fetchMessages in flight, oldest first
  sends,      \* calls of handleSendMessage in flight, oldest first
  submitted   \* what became of the submit event handled last

chat == <<props, mounted, messages, newMessage, isSending, fetches, sends, submitted>>

vars == <<accounts, store, now, req, reply, writes, acked, chat>>

\* two requests can be in flight at the same time
Slots == {1, 2}
Idle == [op |-> "idle", pc |-> "idle"]

\* no ChatView is rendered
NoChatView == [none |-> TRUE]
Unrendered ==
  /\ props = NoChatView
  /\ mounted = FALSE
  /\ messages = <<>>
  /\ newMessage = <<>>
  /\ isSending = FALSE
  /\ fetches = <<>>
  /\ sends = <<>>
  /\ submitted = "none"

Init ==
  /\ accounts = {}
  /\ store = <<>>
  /\ now = ClockStart
  /\ req = [s \in Slots |-> Idle]
  /\ reply = Idle
  /\ writes = 0
  /\ acked = {}
  /\ Unrendered

\* A request takes the lowest slot in which none is in flight, once the
\* response sent last has been observed.
Free(s) == reply = Idle /\ req[s] = Idle /\ \A t \in 1..(s - 1) : req[t] # Idle

\* slot s holds a request of handler op that waits for the store call stage
At(s, op, stage) == reply = Idle /\ req[s].op = op /\ req[s].pc = stage

\* request r, arriving in slot s, waits for its first store call
Enter(s, r, stage) ==
  /\ req' = [req EXCEPT ![s] = [r EXCEPT !.pc = stage]]
  /\ UNCHANGED reply

\* c.json(...): request r, in slot s or just arrived for it, is answered
Respond(s, r, response) ==
  /\ req' = [req EXCEPT ![s] = Idle]
  /\ reply' = r @@ [resp |-> response]

(***************************************************************************)
(* Key-value store (kv_store.tsx): set, get, getByPrefix.                  *)
(***************************************************************************)
KvSet(st, key, value) ==
  [k \in DOMAIN st \cup {key} |-> IF k = key THEN value ELSE st[k]]

KvHas(st, key) == key \in DOMAIN st

KvGet(st, key) == st[key]

PrefixKeys(st, prefix) == {k \in DOMAIN st : StartsWith(k, prefix)}

\* the orders in which a scan can return the keys it matches
Orders(keys) ==
  {o \in [1..Cardinality(keys) -> keys] : \A k \in keys : \E i \in DOMAIN o : o[i] = k}

\* one result of getByPrefix: the matching values, in the order o of their keys
KvGetByPrefix(st, o) == [i \in DOMAIN o |-> st[o[i]]]

\* what a handler's catch block answers when a store call throws
StorageError == "Error: storage failure"
InternalError == [status |-> 500, error |-> StorageError]

(***************************************************************************)
(* Identity Provider: admin.createUser and auth.getUser.                   *)
(***************************************************************************)
NoUser == [none |-> TRUE]
DuplicateEmail == "A user with this email address has already been registered"
WeakPassword == "Password should be at least 6 characters"

\* the error admin.createUser reports for a body, "" when it accepts it
CreateUserError(accts, body) ==
  IF \E a \in accts : a.email = body.email THEN DuplicateEmail
  ELSE IF Len(body.password) < 6 THEN WeakPassword
  ELSE ""

\* c.req.header('Authorization')?.split(' ')[1]; <<>> stands for undefined
AccessToken(header) == IF Len(header) >= 2 THEN header[2] ELSE <<>>

\* auth.getUser(accessToken): the account the token was issued for, or null
GetUser(accts, accessToken) ==
  IF \E a \in accts : TokenOf(a.id) = accessToken
  THEN CHOOSE a \in accts : TokenOf(a.id) = accessToken
  ELSE NoUser

\* variant: the rejection answered with another status
Forbidden == [status |-> 403, error |-> "Unauthorized"]

Unauthorized == [status |-> 401, error |-> "Unauthorized"]

\* if (!user)
Rejects(user) == user = NoUser

(***************************************************************************)
(* POST /signup                                                            *)
(***************************************************************************)
\* variant: the new profile placed at the origin instead of nowhere
SignupProfileAtOrigin(user, body, clock) ==
  [id |-> user.id, email |-> body.email, name |-> body.name, avatar |-> body.avatar,
   latitude |-> JNum(0), longitude |-> JNum(0), lastSeen |-> ToISOString(clock)]

SignupProfile(user, body, clock) ==
  [id |-> user.id, email |-> body.email, name |-> body.name, avatar |-> body.avatar,
   latitude |-> JNull, longitude |-> JNull, lastSeen |-> ToISOString(clock)]

\* variant: the provider's rejection answered like any other failure
SignupRejectedAsInternal(message) == [status |-> 500, error |-> message]

SignupRejected(message) == [status |-> 400, error |-> message]

\* the request arrives, admin.createUser answers, the profile is built and
\* kv.set called
Signup(s) ==
  /\ Free(s)
  /\ \E body \in SignupBodies :
       LET r == [op |-> "signup", pc |-> "create", body |-> body]
           error == CreateUserError(accounts, body)
       IN IF error # ""
          THEN /\ Respond(s, r, SignupRejected(error))
               /\ UNCHANGED accounts
          ELSE \E id \in UserIds \ {a.id : a \in accounts} :
                 LET user == [id |-> id, email |-> body.email]
                 IN /\ accounts' = accounts \cup {user}
                    /\ Enter(s, r @@ [user |-> user,
                                      profile |-> SignupProfile(user, body, now)],
                             "set")
  /\ UNCHANGED <<store, now, writes, acked>>
  /\ UNCHANGED chat

\* kv.set of the profile takes effect, or throws
SignupSet(s) ==
  /\ At(s, "signup", "set")
  /\ \/ /\ store' = KvSet(store, UserKey(req[s].user.id), req[s].profile)
        /\ Respond(s, req[s], [status |-> 200, success |-> TRUE, user |-> req[s].user])
     \/ /\ Respond(s, req[s], InternalError)
        /\ UNCHANGED store
  /\ UNCHANGED <<accounts, now, writes, acked>>
  /\ UNCHANGED chat

(***************************************************************************)
(* POST /update-location                                                   *)
(***************************************************************************)
\* variant: the coordinates of the request are added to the stored ones
RelocateByDelta(userData, body, clock) ==
  LET Add(old, delta) ==
        IF old.t = "num" /\ delta.t = "num" THEN JNum(old.v + delta.v) ELSE delta
  IN [userData EXCEPT !.latitude = Add(userData.latitude, body.latitude),
                      !.longitude = Add(userData.longitude, body.longitude),
                      !.lastSeen = ToISOString(clock)]

\* variant: the profile is rebuilt from the request, which carries no email,
\* name or avatar
RelocateRebuilt(userData, body, clock) ==
  [id |-> userData.id, email |-> "", name |-> "", avatar |-> "",
   latitude |-> body.latitude, longitude |-> body.longitude,
   lastSeen |-> ToISOString(clock)]

\* userData.latitude = ...; userData.longitude = ...; userData.lastSeen = ...
Relocate(userData, body, clock) ==
  [userData EXCEPT !.latitude = body.latitude, !.longitude = body.longitude,
                   !.lastSeen = ToISOString(clock)]

\* if (userData): the profile was found
Found(st, key) == KvHas(st, key)

Success == [status |-> 200, success |-> TRUE]

\* the request arrives, auth.getUser answers, kv.get is called
UpdateLocation(s) ==
  /\ Free(s)
  /\ \E header \in AuthHeaders, body \in LocationBodies :
       LET r == [op |-> "updateLocation", pc |-> "auth", authorization |-> header]
           user == GetUser(accounts, AccessToken(header))
       IN IF Rejects(user)
          THEN /\ Respond(s, r, Unauthorized)
               /\ UNCHANGED writes
          ELSE /\ writes < MaxWrites
               /\ Enter(s, r @@ [user |-> user, body |-> body], "get")
               /\ writes' = writes + 1
  /\ UNCHANGED <<accounts, store, now, acked>>
  /\ UNCHANGED chat

\* variant: a missing profile is created from the request instead of dropped
UpdateLocationGetUpsert(s) ==
  /\ At(s, "updateLocation", "get")
  /\ LET key == UserKey(req[s].user.id)
         fresh == [id |-> req[s].user.id, latitude |-> JNull, longitude |-> JNull,
                   lastSeen |-> ToISOString(now)]
         userData == IF Found(store, key) THEN KvGet(store, key) ELSE fresh
     IN \/ Enter(s, req[s] @@ [userData |-> Relocate(userData, req[s].body, now)], "set")
        \/ Respond(s, req[s], InternalError)
  /\ UNCHANGED <<accounts, store, now, writes, acked>>
  /\ UNCHANGED chat

\* kv.get answers (or throws); a found profile is changed and kv.set called
UpdateLocationGet(s) ==
  /\ At(s, "updateLocation", "get")
  /\ LET key == UserKey(req[s].user.id)
     IN \/ /\ Found(store, key)
           /\ Enter(s, req[s] @@ [userData |-> Relocate(KvGet(store, key), req[s].body, now)],
                    "set")
        \/ /\ ~Found(store, key)
           /\ Respond(s, req[s], Success)
        \/ Respond(s, req[s], InternalError)
  /\ UNCHANGED <<accounts, store, now, writes, acked>>
  /\ UNCHANGED chat

\* variant: latitude and longitude are written one field at a time into the
\* profile that is stored now, and the write of longitude is lost
UpdateLocationSetTorn(s) ==
  /\ At(s, "updateLocation", "set")
  /\ LET key == UserKey(req[s].user.id)
     IN \/ /\ store' = KvSet(store, key,
                              [KvGet(store, key) EXCEPT
                                 !.latitude = req[s].userData.latitude,
                                 !.lastSeen = req[s].userData.lastSeen])
           /\ Respond(s, req[s], Success)
        \/ /\ Respond(s, req[s], InternalError)
           /\ UNCHANGED store
  /\ UNCHANGED <<accounts, now, writes, acked>>
  /\ UNCHANGED chat

\* kv.set of the changed profile takes effect, or throws
UpdateLocationSet(s) ==
  /\ At(s, "updateLocation", "set")
  /\ \/ /\ store' = KvSet(store, UserKey(req[s].user.id), req[s].userData)
        /\ Respond(s, req[s], Success)
     \/ /\ Respond(s, req[s], InternalError)
        /\ UNCHANGED store
  /\ UNCHANGED <<accounts, now, writes, acked>>
  /\ UNCHANGED chat

(***************************************************************************)
(* GET /nearby-users                                                       *)
(***************************************************************************)
\* variant: the caller is not filtered out
NearbyFilterKeepsSelf(u, user) == Truthy(u.latitude) /\ Truthy(u.longitude)

\* u.id !== user.id && u.latitude && u.longitude
NearbyFilter(u, user) == u.id # user.id /\ Truthy(u.latitude) /\ Truthy(u.longitude)

NearbyEntry(u) ==
  [id |-> u.id, name |-> u.name, avatar |-> u.avatar,
   latitude |-> u.latitude, longitude |-> u.longitude, lastSeen |-> u.lastSeen]

\* allUsers.filter(...).map(...)
NearbyList(allUsers, user) ==
  LET Keep(u) == NearbyFilter(u, user)
      kept == SelectSeq(allUsers, Keep)
  IN [i \in DOMAIN kept |-> NearbyEntry(kept[i])]

\* The whole handler: the request arrives, auth.getUser answers,
\* kv.getByPrefix('user:') answers in some order (or throws) and the list is
\* sent.  The handler writes nothing, so its steps are taken at once.
NearbyUsers(s) ==
  /\ Free(s)
  /\ \E header \in AuthHeaders :
       LET r == [op |-> "nearbyUsers", pc |-> "auth", authorization |-> header]
           user == GetUser(accounts, AccessToken(header))
           scanned == [r EXCEPT !.pc = "scan"] @@ [user |-> user]
       IN IF Rejects(user)
          THEN Respond(s, r, Unauthorized)
          ELSE \/ \E o \in Orders(PrefixKeys(store, UserPrefix)) :
                    Respond(s, scanned,
                            [status |-> 200,
                             users |-> NearbyList(KvGetByPrefix(store, o), user)])
               \/ Respond(s, scanned, InternalError)
  /\ UNCHANGED <<accounts, store, now, writes, acked>>
  /\ UNCHANGED chat

(***************************************************************************)
(* POST /send-message                                                      *)
(***************************************************************************)
\* variant: the sender is taken from the request body
MessageDataFromBody(user, body, clock) ==
  [senderId |-> body.senderId, recipientId |-> body.recipientId,
   message |-> body.message, timestamp |-> ToISOString(clock)]

\* const { recipientId, message } = await c.req.json(); messageData = {...}
MessageData(user, body, clock) ==
  [senderId |-> user.id, recipientId |-> body.recipientId, message |-> body.message,
   timestamp |-> ToISOString(clock)]

\* The request arrives, auth.getUser answers, the key and the message are
\* built and kv.set is called.  Date.now() (the key) and new Date() (the
\* timestamp) are two reads of the clock: it may advance between them.
SendMessage(s) ==
  /\ Free(s)
  /\ \E header \in AuthHeaders, recipientId \in RecipientIds, message \in MessageTexts,
        senderId \in BodySenderIds, elapsed \in {0, 1} :
       LET r == [op |-> "sendMessage", pc |-> "auth", authorization |-> header]
           user == GetUser(accounts, AccessToken(header))
           body == [recipientId |-> recipientId, message |-> message,
                    senderId |-> senderId]
           conversationId == ConversationId(user.id, recipientId)
       IN IF Rejects(user)
          THEN /\ Respond(s, r, Unauthorized)
               /\ UNCHANGED <<now, writes>>
          ELSE /\ writes < MaxWrites
               /\ now + elapsed <= ClockStart + MaxTicks
               /\ Enter(s, r @@ [user |-> user,
                                 body |-> body,
                                 conversationId |-> conversationId,
                                 nowMs |-> now,
                                 messageKey |-> MessageKey(conversationId, now),
                                 messageData |-> MessageData(user, body, now + elapsed)],
                        "set")
               /\ now' = now + elapsed
               /\ writes' = writes + 1
  /\ UNCHANGED <<accounts, store, acked>>
  /\ UNCHANGED chat

\* variant: a key that is taken is not written again
SendMessageSetIfAbsent(s) ==
  /\ At(s, "sendMessage", "set")
  /\ \/ /\ store' = IF KvHas(store, req[s].messageKey) THEN store
                   ELSE KvSet(store, req[s].messageKey, req[s].messageData)
        /\ Respond(s, req[s],
                   [status |-> 200, success |-> TRUE, message |-> req[s].messageData])
        /\ acked' = acked \cup {req[s].messageData}
     \/ /\ Respond(s, req[s], InternalError)
        /\ UNCHANGED <<store, acked>>
  /\ UNCHANGED <<accounts, now, writes>>
  /\ UNCHANGED chat

\* kv.set of the message takes effect, or throws
SendMessageSet(s) ==
  /\ At(s, "sendMessage", "set")
  /\ \/ /\ store' = KvSet(store, req[s].messageKey, req[s].messageData)
        /\ Respond(s, req[s],
                   [status |-> 200, success |-> TRUE, message |-> req[s].messageData])
        /\ acked' = acked \cup {req[s].messageData}
     \/ /\ Respond(s, req[s], InternalError)
        /\ UNCHANGED <<store, acked>>
  /\ UNCHANGED <<accounts, now, writes>>
  /\ UNCHANGED chat

(***************************************************************************)
(* GET /get-messages/:recipientId                                          *)
(***************************************************************************)
\* the comparator of messages.sort: negative, zero or positive
CompareTimestamps(a, b) == GetTime(a.timestamp) - GetTime(b.timestamp)

\* x put into the sorted sequence sorted, behind the elements it does not
\* precede (Array.prototype.sort is stable)
RECURSIVE Insert(_, _)
Insert(sorted, x) ==
  IF sorted = <<>> THEN <<x>>
  ELSE LET last == sorted[Len(sorted)]
       IN IF CompareTimestamps(last, x) <= 0
          THEN Append(sorted, x)
          ELSE Append(Insert(SubSeq(sorted, 1, Len(sorted) - 1), x), last)

RECURSIVE StableSort(_)
StableSort(list) ==
  IF list = <<>> THEN <<>>
  ELSE Insert(StableSort(SubSeq(list, 1, Len(list) - 1)), list[Len(list)])

\* variant: the scan's order is returned as it came
Unsorted(list) == list

\* messages.sort((a, b) => new Date(a.timestamp).getTime() - ...)
SortByTimestamp(list) == StableSort(list)

\* The whole handler: the request arrives, auth.getUser answers, the
\* conversation id is computed, kv.getByPrefix answers in some order (or
\* throws) and the sorted list is sent.  The handler writes nothing, so its
\* steps are taken at once.
GetMessages(s) ==
  /\ Free(s)
  /\ \E header \in AuthHeaders, recipientId \in PathRecipientIds :
       LET r == [op |-> "getMessages", pc |-> "auth", authorization |-> header]
           user == GetUser(accounts, AccessToken(header))
           conversationId == ConversationId(user.id, recipientId)
           scanned == [r EXCEPT !.pc = "scan"]
                        @@ [user |-> user, recipientId |-> recipientId,
                            conversationId |-> conversationId]
       IN IF Rejects(user)
          THEN Respond(s, r, Unauthorized)
          ELSE \/ \E o \in Orders(PrefixKeys(store, MessagePrefix \o conversationId)) :
                    Respond(s, scanned,
                            [status |-> 200,
                             messages |-> SortByTimestamp(KvGetByPrefix(store, o))])
               \/ Respond(s, scanned, InternalError)
  /\ UNCHANGED <<accounts, store, now, writes, acked>>
  /\ UNCHANGED chat

(***************************************************************************)
(* The clock and the specification.                                        *)
(***************************************************************************)
\* the response sent last leaves the server
Observe ==
  /\ reply # Idle
  /\ reply' = Idle
  /\ UNCHANGED <<accounts, store, now, req, writes, acked>>
  /\ UNCHANGED chat

Tick ==
  /\ reply = Idle
  /\ now < ClockStart + MaxTicks
  /\ now' = now + 1
  /\ UNCHANGED <<accounts, store, req, reply, writes, acked>>
  /\ UNCHANGED chat

Next ==
  \/ Tick
  \/ Observe
  \/ \E s \in Slots : Signup(s)
  \/ \E s \in Slots : SignupSet(s)
  \/ \E s \in Slots : UpdateLocation(s)
  \/ \E s \in Slots : UpdateLocationGet(s)
  \/ \E s \in Slots : UpdateLocationSet(s)
  \/ \E s \in Slots : NearbyUsers(s)
  \/ \E s \in Slots : SendMessage(s)
  \/ \E s \in Slots : SendMessageSet(s)
  \/ \E s \in Slots : GetMessages(s)

Spec == Init /\ [][Next]_vars

(***************************************************************************)
(* ChatView (src/components/ChatView.tsx): the chat of one user with one   *)
(* recipient.  The component stays mounted; it polls get-messages and      *)
(* sends through send-message.  A call of fetchMessages or of              *)
(* handleSendMessage is split at its await of fetch: the request is sent,  *)
(* the server handles it at some later time, and the response reaches the  *)
(* component at some time after that, in any order with the responses of   *)
(* the other calls.                                                        *)
(***************************************************************************)
MaxFetches == 2     \* requests of one ChatView in flight at the same time

\* texts of the input: "", " ", " hi"
InputTexts == { <<>>, <<32>>, <<32, 104, 105>> }

\* the props App gives the ChatView of a logged-in user for another user
ChatProps ==
  { [currentUserId |-> p[1], recipient |-> [id |-> p[2]], accessToken |-> TokenOf(p[1])] :
      p \in {q \in UserIds \X UserIds : q[1] # q[2]} }

\* white space that String.prototype.trim removes: tab, LF, VT, FF, CR, space
IsWhiteSpace(c) == c \in {9, 10, 11, 12, 13, 32}

RECURSIVE TrimStart(_)
TrimStart(s) ==
  IF s # <<>> /\ IsWhiteSpace(Head(s)) THEN TrimStart(Tail(s)) ELSE s

RECURSIVE TrimEnd(_)
TrimEnd(s) ==
  IF s # <<>> /\ IsWhiteSpace(s[Len(s)]) THEN TrimEnd(SubSeq(s, 1, Len(s) - 1)) ELSE s

Trim(s) == TrimEnd(TrimStart(s))

\* the sequence without its element i
Remove(seq, i) == SubSeq(seq, 1, i - 1) \o SubSeq(seq, i + 1, Len(seq))

\* both users have signed up, nothing else has happened, and the ChatView
\* of one of them for the other is rendered
ChatAccounts ==
  { [id |-> <<97>>, email |-> "ann@x"], [id |-> <<97, 98>>, email |-> "bob@x"] }

ChatInit ==
  /\ accounts = ChatAccounts
  /\ store = [k \in {UserKey(a.id) : a \in ChatAccounts} |->
                LET user == CHOOSE a \in ChatAccounts : UserKey(a.id) = k
                    body == CHOOSE b \in SignupBodies : b.email = user.email
                IN SignupProfile(user, body, ClockStart)]
  /\ now = ClockStart
  /\ req = [s \in Slots |-> Idle]
  /\ reply = Idle
  /\ writes = 0
  /\ acked = {}
  /\ props \in ChatProps
  /\ mounted = FALSE
  /\ messages = <<>>
  /\ newMessage = <<>>
  /\ isSending = FALSE
  /\ fetches = <<>>
  /\ sends = <<>>
  /\ submitted = "none"

\* the server variables that no request of the ChatView changes
backend == <<accounts, req, reply, writes, acked>>

\* headers: { 'Authorization': `Bearer ${accessToken}` }
ChatHeader == <<Bearer, props.accessToken>>

\* the call of fetchMessages up to its await of fetch: a request is sent
FetchMessages == Append(fetches, [pc |-> "fetch"])

\* a further request has room in the model
Room == Len(fetches) + Len(sends) < MaxFetches

\* useEffect: fetchMessages(); setInterval(fetchMessages, 2000)
Mount ==
  /\ props # NoChatView
  /\ ~mounted
  /\ mounted' = TRUE
  /\ fetches' = FetchMessages
  /\ UNCHANGED <<store, now, props, messages, newMessage, isSending, sends, submitted>>
  /\ UNCHANGED backend

\* the interval fires: fetchMessages()
IntervalFires ==
  /\ mounted
  /\ Room
  /\ fetches' = FetchMessages
  /\ UNCHANGED <<store, now, props, mounted, messages, newMessage, isSending, sends,
                 submitted>>
  /\ UNCHANGED backend

\* every response the get-messages handler can send from the store st
GetMessagesResponses(st, header, recipientId) ==
  LET user == GetUser(accounts, AccessToken(header))
      conversationId == ConversationId(user.id, recipientId)
  IN IF Rejects(user) THEN {Unauthorized}
     ELSE { [status |-> 200, messages |-> SortByTimestamp(KvGetByPrefix(st, o))] :
              o \in Orders(PrefixKeys(st, MessagePrefix \o conversationId)) }
          \cup {InternalError}

\* the server handles the get-messages request of a fetchMessages call
ServeGetMessages ==
  /\ \E i \in DOMAIN fetches :
       /\ fetches[i].pc = "fetch"
       /\ \E resp \in GetMessagesResponses(store, ChatHeader, props.recipient.id) :
            fetches' = [fetches EXCEPT ![i] = [pc |-> "response", resp |-> resp]]
  /\ UNCHANGED <<store, now, props, mounted, messages, newMessage, isSending, sends,
                 submitted>>
  /\ UNCHANGED backend

\* response.ok
Ok(resp) == resp.status \in 200..299

\* the response of a fetchMessages call arrives: if (response.ok)
\* setMessages(data.messages), else the error is logged
FetchMessagesDone ==
  /\ \E i \in DOMAIN fetches :
       /\ fetches[i].pc = "response"
       /\ messages' = IF Ok(fetches[i].resp) THEN fetches[i].resp.messages ELSE messages
       /\ fetches' = Remove(fetches, i)
  /\ UNCHANGED <<store, now, props, mounted, newMessage, isSending, sends, submitted>>
  /\ UNCHANGED backend

\* fetch of a fetchMessages call rejects (the request or its response is
\* lost): the catch block logs the error
FetchMessagesThrows ==
  /\ \E i \in DOMAIN fetches : fetches' = Remove(fetches, i)
  /\ UNCHANGED <<store, now, props, mounted, messages, newMessage, isSending, sends,
                 submitted>>
  /\ UNCHANGED backend

\* onChange={(e) => setNewMessage(e.target.value)}; the input is disabled
\* while isSending
Type ==
  /\ mounted
  /\ ~isSending
  /\ \E text \in InputTexts : newMessage' = text
  /\ UNCHANGED <<store, now, props, mounted, messages, isSending, fetches, sends,
                 submitted>>
  /\ UNCHANGED backend

\* variant: a submit is ignored only when the input is blank
IgnoresBlankOnly(text, sending) == Trim(text) = <<>>

\* if (!newMessage.trim() || isSending) return
Ignores(text, sending) == Trim(text) = <<>> \/ sending

\* onSubmit: handleSendMessage up to its await of fetch
HandleSendMessage ==
  /\ mounted
  /\ IF Ignores(newMessage, isSending)
     THEN /\ submitted' = "ignored"
          /\ UNCHANGED <<isSending, sends>>
     ELSE /\ Room
          /\ isSending' = TRUE
          /\ sends' = Append(sends, [pc |-> "fetch",
                                     body |-> [recipientId |-> props.recipient.id,
                                               message |-> newMessage]])
          /\ submitted' = "accepted"
  /\ UNCHANGED <<store, now, props, mounted, messages, newMessage, fetches>>
  /\ UNCHANGED backend

\* The server handles the send-message request of a handleSendMessage call:
\* the message is stored and success answered, or kv.set throws and 500 is
\* answered.
ServeSendMessage ==
  /\ \E j \in DOMAIN sends, elapsed \in {0, 1} :
       LET user == GetUser(accounts, AccessToken(ChatHeader))
           body == sends[j].body
           conversationId == ConversationId(user.id, body.recipientId)
           messageData == MessageData(user, body, now + elapsed)
       IN /\ sends[j].pc = "fetch"
          /\ now + elapsed <= ClockStart + MaxTicks
          /\ now' = now + elapsed
          /\ \/ /\ store' = KvSet(store, MessageKey(conversationId, now), messageData)
                /\ sends' = [sends EXCEPT ![j] =
                               [pc |-> "response", body |-> body,
                                resp |-> [status |-> 200, success |-> TRUE,
                                          message |-> messageData]]]
             \/ /\ UNCHANGED store
                /\ sends' = [sends EXCEPT ![j] =
                               [pc |-> "response", body |-> body, resp |-> InternalError]]
  /\ UNCHANGED <<props, mounted, messages, newMessage, isSending, fetches, submitted>>
  /\ UNCHANGED backend

\* The response of a handleSendMessage call arrives.  response.ok: the
\* input is cleared, fetchMessages is called and the finally block runs;
\* otherwise the call awaits response.json().
SendMessageDone ==
  /\ \E j \in DOMAIN sends :
       /\ sends[j].pc = "response"
       /\ IF Ok(sends[j].resp)
          THEN /\ newMessage' = <<>>
               /\ fetches' = FetchMessages
               /\ isSending' = FALSE
               /\ sends' = Remove(sends, j)
          ELSE /\ sends' = [sends EXCEPT ![j].pc = "json"]
               /\ UNCHANGED <<newMessage, fetches, isSending>>
  /\ UNCHANGED <<store, now, props, mounted, messages, submitted>>
  /\ UNCHANGED backend

\* the error body has been read (or response.json() rejected): toast, then
\* the finally block
SendMessageFailed ==
  /\ \E j \in DOMAIN sends :
       /\ sends[j].pc = "json"
       /\ sends' = Remove(sends, j)
  /\ isSending' = FALSE
  /\ UNCHANGED <<store, now, props, mounted, messages, newMessage, fetches, submitted>>
  /\ UNCHANGED backend

\* fetch of a handleSendMessage call rejects (the request or its response
\* is lost): the catch block, then the finally block
SendMessageThrows ==
  /\ \E j \in DOMAIN sends :
       /\ sends[j].pc \in {"fetch", "response"}
       /\ sends' = Remove(sends, j)
  /\ isSending' = FALSE
  /\ UNCHANGED <<store, now, props, mounted, messages, newMessage, fetches, submitted>>
  /\ UNCHANGED backend

ChatNext ==
  \/ Tick
  \/ Mount
  \/ IntervalFires
  \/ ServeGetMessages
  \/ FetchMessagesDone
  \/ FetchMessagesThrows
  \/ Type
  \/ HandleSendMessage
  \/ ServeSendMessage
  \/ SendMessageDone
  \/ SendMessageFailed
  \/ SendMessageThrows

ChatSpec == ChatInit /\ [][ChatNext]_vars


(***************************************************************************)
(* Vocabulary of the properties.  A response is observed in the state      *)
(* right after the step that sent it: no other step is taken before        *)
(* Observe, so store and acked are still the ones the handler saw.         *)
(***************************************************************************)
AuthenticatedOps == {"updateLocation", "nearbyUsers", "sendMessage", "getMessages"}

\* the response sent last answers a request of handler op with HTTP 200
Answered(op) == reply.op = op /\ reply.resp.status = 200

ProfileKeys == PrefixKeys(store, UserPrefix)
MessageKeys == PrefixKeys(store, MessagePrefix)
AccountIds == {a.id : a \in accounts}

HasNullCoordinate(profile) == profile.latitude = JNull \/ profile.longitude = JNull

\* the elements of a list
Elements(list) == {list[i] : i \in DOMAIN list}

\* this step enters a request in slot s
Enters(s) == req[s] = Idle /\ req'[s] # Idle

\* this step sends a response
Responds == reply = Idle /\ reply' # Idle

\* this step is the kv.set of an update-location by user id taking effect
AppliesLocationOf(id) ==
  \E s \in Slots :
    /\ req[s].op = "updateLocation" /\ req[s].pc = "set" /\ req[s].user.id = id
    /\ Responds /\ reply'.resp = Success

(***************************************************************************)
(* C1.  Delivery: once a sendMessage from user A to another user B has     *)
(* answered success, every list that a later getMessages by A for B, or    *)
(* by B for A, returns contains that message.                              *)
(***************************************************************************)
C1_Delivery ==
  Answered("getMessages") =>
    \A m \in acked :
      ( /\ m.senderId # m.recipientId
        /\ {m.senderId, m.recipientId} \subseteq AccountIds
        /\ {m.senderId, m.recipientId} = {reply.user.id, reply.recipientId} )
      => m \in Elements(reply.resp.messages)

(***************************************************************************)
(* C2.  The list nearbyUsers returns has no entry with the caller's id     *)
(* and no entry of a profile whose latitude or longitude is null.          *)
(***************************************************************************)
C2_NearbyExcludes ==
  Answered("nearbyUsers") =>
    \A e \in Elements(reply.resp.users) :
      /\ e.id # reply.user.id
      /\ e.latitude # JNull /\ e.longitude # JNull
      /\ \A k \in ProfileKeys : store[k].id = e.id => ~HasNullCoordinate(store[k])

\* nearbyUsers has answered a caller whose own profile is located, while
\* the store holds a profile with a null coordinate
C2_Witness ==
  /\ Answered("nearbyUsers")
  /\ \E k \in ProfileKeys :
       store[k].id = reply.user.id /\ Truthy(store[k].latitude) /\ Truthy(store[k].longitude)
  /\ \E k \in ProfileKeys : HasNullCoordinate(store[k])

(***************************************************************************)
(* C3.  Completeness of nearbyUsers: every stored profile with non-null    *)
(* latitude and longitude and an id other than the caller's is in the      *)
(* returned list, latitude 0 and longitude 0 included.                     *)
(***************************************************************************)
C3_NearbyComplete ==
  Answered("nearbyUsers") =>
    \A k \in ProfileKeys :
      (~HasNullCoordinate(store[k]) /\ store[k].id # reply.user.id)
      => \E e \in Elements(reply.resp.users) : e.id = store[k].id

(***************************************************************************)
(* C4.  When signup answers success with user id U, the store holds under  *)
(* user:<U> a profile with id U, the submitted email, name and avatar and   *)
(* null coordinates; a profile with null coordinates keeps them in every   *)
(* step that is not an updateLocation of its user taking effect.           *)
(***************************************************************************)
C4_SignupProfile ==
  [][ /\ (Responds /\ reply'.op = "signup" /\ reply'.resp.status = 200) =>
           LET key == UserKey(reply'.resp.user.id)
           IN /\ KvHas(store', key)
              /\ store'[key].id = reply'.resp.user.id
              /\ store'[key].email = reply'.body.email
              /\ store'[key].name = reply'.body.name
              /\ store'[key].avatar = reply'.body.avatar
              /\ store'[key].latitude = JNull
              /\ store'[key].longitude = JNull
      /\ \A id \in UserIds :
           LET key == UserKey(id)
           IN ( /\ KvHas(store, key)
                /\ store[key].latitude = JNull /\ store[key].longitude = JNull
                /\ ~AppliesLocationOf(id) )
              => ( /\ KvHas(store', key)
                   /\ store'[key].latitude = JNull /\ store'[key].longitude = JNull )
    ]_vars

\* signup has answered success while another user's updateLocation has
\* already moved that user's profile
C4_Witness ==
  /\ Answered("signup")
  /\ KvHas(store, UserKey(reply.resp.user.id))
  /\ \E k \in ProfileKeys : ~HasNullCoordinate(store[k])

(***************************************************************************)
(* C5.  When kv.get finds no profile under user:<id> of the authenticated  *)
(* caller of updateLocation, the handler calls no kv.set: that step        *)
(* answers the request, with success unless kv.get itself threw, and the   *)
(* store is the same before and after it.                                  *)
(***************************************************************************)
C5_DropsUpdate ==
  [][ \A s \in Slots :
        ( /\ req[s].op = "updateLocation" /\ req[s].pc = "get"
          /\ req'[s] # req[s]
          /\ ~KvHas(store, UserKey(req[s].user.id)) )
        => ( /\ store' = store
             /\ req'[s] = Idle
             /\ reply'.resp \in {Success, InternalError}
             /\ reply'.user = req[s].user )
    ]_vars

\* updateLocation has answered success to a user without a profile
C5_Witness ==
  /\ reply.op = "updateLocation" /\ reply.pc = "get"
  /\ reply.resp = Success
  /\ ~KvHas(store, UserKey(reply.user.id))

(***************************************************************************)
(* C6.  conversationId is symmetric: the id a sendMessage or getMessages   *)
(* computes for caller A and recipient B is the one computed for caller B  *)
(* and recipient A, and a message key written by one starts with the       *)
(* prefix scanned by the other.                                            *)
(***************************************************************************)
\* the requests, in flight or just answered, that have computed a conversation id
Conversing ==
  {r \in {req[s] : s \in Slots} \cup {reply} :
     r.op \in {"sendMessage", "getMessages"} /\ r.pc \in {"set", "scan"}}

RecipientOf(r) == IF r.op = "sendMessage" THEN r.body.recipientId ELSE r.recipientId

C6_ConversationIdSymmetric ==
  \A x \in Conversing, y \in Conversing :
    (x.user.id = RecipientOf(y) /\ y.user.id = RecipientOf(x))
    => /\ x.conversationId = y.conversationId
       /\ (x.op = "sendMessage" =>
             StartsWith(x.messageKey, MessagePrefix \o y.conversationId \o Colon))

\* getMessages by one user has answered while a sendMessage of the other
\* user to the first is in flight
C6_Witness ==
  /\ Answered("getMessages")
  /\ reply.user.id # reply.recipientId
  /\ \E s \in Slots :
       /\ req[s].op = "sendMessage"
       /\ req[s].user.id = reply.recipientId
       /\ req[s].body.recipientId = reply.user.id

(***************************************************************************)
(* C7.  updateLocation, nearbyUsers, sendMessage and getMessages: when     *)
(* the Identity Provider resolves the bearer token to no user, the         *)
(* request is answered 401 'Unauthorized' and the store is unchanged; no   *)
(* such request reaches a store call.                                      *)
(***************************************************************************)
Unresolved(r) == GetUser(accounts, AccessToken(r.authorization)) = NoUser

C7_Unauthorized ==
  [][ /\ \A s \in Slots :
           (Enters(s) /\ req'[s].op \in AuthenticatedOps) => ~Unresolved(req'[s])
      /\ (Responds /\ reply'.op \in AuthenticatedOps /\ Unresolved(reply'))
           => ( /\ reply'.resp.status = 401
                /\ reply'.resp.error = "Unauthorized"
                /\ reply'.pc = "auth"
                /\ store' = store )
    ]_vars

\* sendMessage with a token of no user has been answered, the store not empty
C7_Witness ==
  /\ reply.op = "sendMessage"
  /\ reply.resp.status = 401
  /\ Unresolved(reply)
  /\ AccessToken(reply.authorization) # <<>>
  /\ store # <<>>

(***************************************************************************)
(* C8.  When the Identity Provider rejects the account creation of a       *)
(* signup, the request is answered 400 with the provider's error message,  *)
(* no profile is written (the store is unchanged) and the request reaches  *)
(* no store call.                                                          *)
(***************************************************************************)
C8_SignupRejected ==
  [][ /\ \A s \in Slots :
           (Enters(s) /\ req'[s].op = "signup")
             => CreateUserError(accounts, req'[s].body) = ""
      /\ ( /\ Responds /\ reply'.op = "signup" /\ reply'.pc = "create"
           /\ CreateUserError(accounts, reply'.body) # "" )
           => ( /\ reply'.resp.status = 400
                /\ reply'.resp.error = CreateUserError(accounts, reply'.body)
                /\ store' = store
                /\ accounts' = accounts )
    ]_vars

\* a signup with the email of an existing profile has been answered
C8_Witness ==
  /\ reply.op = "signup"
  /\ reply.resp.status = 400
  /\ reply.resp.error = DuplicateEmail
  /\ \E k \in ProfileKeys : store[k].email = reply.body.email

(***************************************************************************)
(* C9.  Scenario: only A and B have signed up and both have set non-null   *)
(* coordinates; nearbyUsers by A then returns exactly one entry, B's; and  *)
(* when the only message stored is 'hi' from A to B, getMessages by B for  *)
(* A returns exactly that one message.                                     *)
(***************************************************************************)
\* the store holds the profiles of exactly the users a and b, both located
BothLocated(a, b) ==
  /\ a # b
  /\ ProfileKeys = {UserKey(a), UserKey(b)}
  /\ \A k \in ProfileKeys : ~HasNullCoordinate(store[k])

C9_Scenario ==
  /\ Answered("nearbyUsers") =>
       \A b \in UserIds :
         BothLocated(reply.user.id, b) =>
           /\ Len(reply.resp.users) = 1
           /\ reply.resp.users[1].id = b
  /\ ( /\ Answered("getMessages")
       /\ BothLocated(reply.recipientId, reply.user.id)
       /\ Cardinality(MessageKeys) = 1
       /\ \A k \in MessageKeys :
            /\ store[k].senderId = reply.recipientId
            /\ store[k].recipientId = reply.user.id
            /\ store[k].message = "hi" )
     => /\ Len(reply.resp.messages) = 1
        /\ reply.resp.messages[1].senderId = reply.recipientId
        /\ reply.resp.messages[1].recipientId = reply.user.id
        /\ reply.resp.messages[1].message = "hi"

(***************************************************************************)
(* C10.  The list getMessages returns is in non-decreasing order of the    *)
(* messages' timestamps, whatever the order of the scan and of the keys.   *)
(***************************************************************************)
C10_SortedByTimestamp ==
  Answered("getMessages") =>
    \A i \in DOMAIN reply.resp.messages, j \in DOMAIN reply.resp.messages :
      i < j => GetTime(reply.resp.messages[i].timestamp)
                 <= GetTime(reply.resp.messages[j].timestamp)

\* getMessages has returned two messages whose keys are in the opposite
\* order of their timestamps
C10_Witness ==
  /\ Answered("getMessages")
  /\ \E k1 \in MessageKeys, k2 \in MessageKeys :
       /\ StrLess(k1, k2)
       /\ GetTime(store[k1].timestamp) > GetTime(store[k2].timestamp)
       /\ {store[k1], store[k2]} \subseteq Elements(reply.resp.messages)

(***************************************************************************)
(* C11.  Messages are immutable once written: a message stored under a     *)
(* message key is stored under that key, with the same senderId,           *)
(* recipientId, message and timestamp, after every later step.             *)
(***************************************************************************)
C11_MessagesImmutable ==
  [][ \A k \in MessageKeys :
        /\ KvHas(store', k)
        /\ store'[k].senderId = store[k].senderId
        /\ store'[k].recipientId = store[k].recipientId
        /\ store'[k].message = store[k].message
        /\ store'[k].timestamp = store[k].timestamp
    ]_vars


(***************************************************************************)
(* C12.  updateLocation is idempotent: when the kv.set of an               *)
(* updateLocation takes effect on a profile that already holds the         *)
(* request's latitude and longitude (the same update was applied before),  *)
(* the store after it is the store before it.                              *)
(***************************************************************************)
\* this step is the kv.set of the update-location in slot s taking effect on
\* a profile that holds the coordinates of the request already
ReappliesLocation(s) ==
  /\ req[s].op = "updateLocation" /\ req[s].pc = "set"
  /\ req'[s] = Idle /\ reply'.resp = Success
  /\ KvHas(store, UserKey(req[s].user.id))
  /\ store[UserKey(req[s].user.id)].latitude = req[s].body.latitude
  /\ store[UserKey(req[s].user.id)].longitude = req[s].body.longitude

C12_Idempotent ==
  [][ \A s \in Slots : ReappliesLocation(s) => store' = store ]_vars

\* C12, amended.  The second application changes nothing but lastSeen of the
\* caller's profile, which becomes the clock value the second request read.
C12_IdempotentUpToLastSeen ==
  [][ \A s \in Slots :
        ReappliesLocation(s) =>
          LET key == UserKey(req[s].user.id)
          IN /\ KvHas(store', key)
             /\ store'[key].lastSeen = req[s].userData.lastSeen
             /\ store' = [store EXCEPT ![key].lastSeen = store'[key].lastSeen]
    ]_vars

\* the same update-location has been applied once, at an earlier clock
\* value, and its second application waits for its kv.set
C12_Witness ==
  \E s \in Slots :
    /\ req[s].op = "updateLocation" /\ req[s].pc = "set"
    /\ reply = Idle
    /\ KvHas(store, UserKey(req[s].user.id))
    /\ store[UserKey(req[s].user.id)].latitude = req[s].body.latitude
    /\ store[UserKey(req[s].user.id)].longitude = req[s].body.longitude
    /\ GetTime(store[UserKey(req[s].user.id)].lastSeen) < GetTime(req[s].userData.lastSeen)
    /\ \A t \in Slots \ {s} : req[t] = Idle


(***************************************************************************)
(* C13.  Profile frame: a stored profile is never removed and keeps its    *)
(* id, email, name and avatar; a step changes a stored profile only when   *)
(* it is the kv.set of an updateLocation, of the user the profile belongs  *)
(* to and under that user's key, and then at most latitude, longitude and  *)
(* lastSeen change; nearbyUsers, sendMessage and getMessages change none.  *)
(***************************************************************************)
\* this step is the kv.set of an update-location of the caller with key k
SetsLocationUnder(k) ==
  \E s \in Slots :
    /\ req[s].op = "updateLocation" /\ req[s].pc = "set"
    /\ UserKey(req[s].user.id) = k
    /\ req'[s] = Idle

C13_ProfileFrame ==
  [][ \A k \in ProfileKeys :
        /\ KvHas(store', k)
        /\ store'[k].id = store[k].id
        /\ store'[k].email = store[k].email
        /\ store'[k].name = store[k].name
        /\ store'[k].avatar = store[k].avatar
        /\ k = UserKey(store[k].id)
        /\ store'[k] # store[k] => SetsLocationUnder(k)
    ]_vars

\* an updateLocation has moved one of two stored profiles, and a message
\* is stored
C13_Witness ==
  /\ reply.op = "updateLocation" /\ reply.pc = "set" /\ reply.resp = Success
  /\ Cardinality(ProfileKeys) = 2
  /\ store[UserKey(reply.user.id)].latitude = reply.body.latitude
  /\ store[UserKey(reply.user.id)].longitude = reply.body.longitude
  /\ \E k \in ProfileKeys : HasNullCoordinate(store[k]) /\ store[k].id # reply.user.id
  /\ MessageKeys # {}


(***************************************************************************)
(* C14.  Message-key collision: two sendMessage requests between the same  *)
(* two participants, in either direction, that read the same clock         *)
(* millisecond compute the same key; each is answered success when its     *)
(* kv.set returns, and the store then holds under that key the message     *)
(* written last, the one of the request answered last.                     *)
(***************************************************************************)
\* the send-message requests, in flight or just answered, that have called kv.set
Sending ==
  {r \in {req[s] : s \in Slots} \cup {reply} : r.op = "sendMessage" /\ r.pc = "set"}

Participants(r) == {r.user.id, r.body.recipientId}

C14_KeyCollision ==
  /\ \A x \in Sending, y \in Sending :
       (Participants(x) = Participants(y) /\ x.nowMs = y.nowMs)
       => x.messageKey = y.messageKey
  /\ (reply \in Sending /\ reply.resp # InternalError) =>
       /\ reply.resp.status = 200
       /\ reply.resp.message = reply.messageData
       /\ reply.messageData \in acked
       /\ KvHas(store, reply.messageKey)
       /\ store[reply.messageKey] = reply.messageData

\* a sendMessage has been answered success after a sendMessage in the
\* opposite direction that read the same millisecond and was answered
\* success too: the store holds the later message, not the earlier one
C14_Witness ==
  /\ Answered("sendMessage")
  /\ store[reply.messageKey] = reply.messageData
  /\ \E m \in acked :
       /\ m.senderId = reply.body.recipientId
       /\ m.recipientId = reply.user.id
       /\ m.senderId # m.recipientId
       /\ \A k \in MessageKeys : store[k] # m


(***************************************************************************)
(* C15.  Last write wins without tearing: whenever the kv.set of an        *)
(* updateLocation takes effect, also between the get and the set of        *)
(* another updateLocation of the same user, the profile's latitude and     *)
(* longitude are both those of that request, its other fields except       *)
(* lastSeen are unchanged and no other key changes; so after two such      *)
(* requests the pair is that of the one whose set came last.               *)
(***************************************************************************)
C15_LastWriteWins ==
  [][ \A s \in Slots :
        ( /\ req[s].op = "updateLocation" /\ req[s].pc = "set"
          /\ req'[s] = Idle /\ reply'.resp = Success )
        => LET key == UserKey(req[s].user.id)
           IN /\ KvHas(store, key) /\ KvHas(store', key)
              /\ store'[key].latitude = req[s].body.latitude
              /\ store'[key].longitude = req[s].body.longitude
              /\ store'[key].id = store[key].id
              /\ store'[key].email = store[key].email
              /\ store'[key].name = store[key].name
              /\ store'[key].avatar = store[key].avatar
              /\ \A k \in DOMAIN store' \ {key} : KvHas(store, k) /\ store'[k] = store[k]
    ]_vars

\* two update-locations of one user, with different latitudes and different
\* longitudes, have both read the profile; the kv.set of one has taken
\* effect and the other waits for its kv.set
C15_Witness ==
  /\ reply.op = "updateLocation" /\ reply.pc = "set" /\ reply.resp = Success
  /\ store[UserKey(reply.user.id)].latitude = reply.body.latitude
  /\ store[UserKey(reply.user.id)].longitude = reply.body.longitude
  /\ \E s \in Slots :
       /\ req[s].op = "updateLocation" /\ req[s].pc = "set"
       /\ req[s].user.id = reply.user.id
       /\ req[s].body.latitude # reply.body.latitude
       /\ req[s].body.longitude # reply.body.longitude


(***************************************************************************)
(* C16.  Conversation isolation: every message in a list that getMessages  *)
(* returns to caller C for recipientId R has {senderId, recipientId} =     *)
(* {C, R}, also when one user id is a prefix of another.                   *)
(***************************************************************************)
C16_ConversationIsolation ==
  Answered("getMessages") =>
    \A m \in Elements(reply.resp.messages) :
      {m.senderId, m.recipientId} = {reply.user.id, reply.recipientId}

(***************************************************************************)
(* C17.  Account/profile consistency: every user the Identity Provider     *)
(* created for a signup that has been answered has a profile under         *)
(* user:<id> in the store, also when the signup was answered 500.          *)
(***************************************************************************)
\* a signup that created the account of id still waits for its kv.set
SigningUp(id) ==
  \E s \in Slots : req[s].op = "signup" /\ req[s].pc = "set" /\ req[s].user.id = id

C17_AccountHasProfile ==
  \A a \in accounts : ~SigningUp(a.id) => KvHas(store, UserKey(a.id))


(***************************************************************************)
(* C18.  Sender authenticity: the message a sendMessage stores has as      *)
(* senderId the id the Identity Provider resolved from the request's       *)
(* bearer token, whatever the body names as sender or recipient; every     *)
(* stored message names as sender a user who has an account.               *)
(***************************************************************************)
\* the user the Identity Provider resolves the request's bearer token to
Caller(r) == GetUser(accounts, AccessToken(r.authorization))

C18_SenderAuthentic ==
  /\ \A x \in Sending :
       /\ Caller(x) # NoUser
       /\ x.messageData.senderId = Caller(x).id
  /\ Answered("sendMessage") => store[reply.messageKey].senderId = Caller(reply).id
  /\ \A k \in MessageKeys : store[k].senderId \in AccountIds

\* a sendMessage whose body names another user as the sender has been stored
C18_Witness ==
  /\ Answered("sendMessage")
  /\ reply.body.senderId # reply.user.id
  /\ reply.body.recipientId # reply.user.id
  /\ store[reply.messageKey] = reply.messageData


(***************************************************************************)
(* C19.  ChatView display monotonicity: while the ChatView polls, with     *)
(* the responses of overlapping fetchMessages calls arriving in any        *)
(* order, no step removes from the displayed list a message it displays.   *)
(***************************************************************************)
C19_DisplayMonotone ==
  [][ Elements(messages) \subseteq Elements(messages') ]_vars

(***************************************************************************)
(* C20.  ChatView send guard: a submit starts a send only when the input   *)
(* is not blank and isSending is false, so at most one send is in flight   *)
(* and isSending is true exactly while one is; isSending is false after    *)
(* every send, whether it gets an ok response, an error status or throws;  *)
(* while a send is in flight the input changes only by being cleared on    *)
(* the ok response of that send.                                           *)
(***************************************************************************)
\* this step is the ok response of a send reaching the component
ReceivesOk ==
  \E j \in DOMAIN sends :
    /\ sends[j].pc = "response"
    /\ Ok(sends[j].resp)
    /\ sends' = Remove(sends, j)

C20_SendGuard ==
  [][ /\ Len(sends') <= 1
      /\ isSending' = (sends' # <<>>)
      /\ Len(sends') > Len(sends) =>
           /\ Trim(newMessage) # <<>>
           /\ ~isSending
           /\ sends'[Len(sends')].body.message = newMessage
      /\ (Trim(newMessage) = <<>> \/ isSending) => Len(sends') <= Len(sends)
      /\ Len(sends') < Len(sends) => ~isSending'
      /\ (sends # <<>> /\ newMessage' # newMessage) =>
           (ReceivesOk /\ newMessage' = <<>>)
    ]_vars

\* a submit has been ignored while a send is in flight, the input is not
\* blank, that send got an error status, and a message sent earlier is
\* displayed
C20_Witness ==
  /\ submitted = "ignored"
  /\ isSending
  /\ Len(sends) = 1
  /\ sends[1].pc = "json"
  /\ Trim(newMessage) # <<>>
  /\ messages # <<>>

=============================================================================
